---------------------------- MODULE Spec2Model ----------------------------
(***************************************************************************)
(* Audiobook-subtitler (src/main.py): the text segmenter (split_line,      *)
(* read_chapter), the transcript chapter matcher                           *)
(* (match_files_transcriptions), the subtitle timing adjuster (pad_srt)    *)
(* and the orchestration of the matching strategies and of the per-chapter *)
(* alignment (main, align_book, align_chapter).                            *)
(*                                                                         *)
(* Each routine is a small state machine with its own program counter; a   *)
(* routine that has not been called yet has the counter "call".  Strings   *)
(* are sequences of one-character strings, one per character class the     *)
(* regular expressions of the program distinguish.  Times are integer      *)
(* counts of a clock tick (datetime.timedelta is an exact integer count of *)
(* microseconds, so no rounding is lost).  The two tuning constants of the *)
(* program, MAX_LINE_LENGTH and PAD_SECONDS, are configuration: the model  *)
(* takes every value of a small range for each.                            *)
(***************************************************************************)
EXTENDS Integers, Sequences, FiniteSets, TLC

VARIABLES
    \* pad_srt
    padtime,       \* timedelta(seconds=PAD_SECONDS) (lines 35, 217), in ticks
    parsed,        \* list(srt.parse(srt_str)) as it was parsed (line 218)
    lines,         \* the list `lines` that the loop mutates
    i,             \* the loop index i (0-based, as in the code)
    composed,      \* the cue list srt.compose serialises (line 234)
    padpc,         \* "call" | "loop" | "done" | "raised"
    \* split_line
    MAX_LINE_LENGTH,  \* the configured maximum line length (line 29)
    unit,          \* the argument of the outermost call of split_line
    stack,         \* the arguments of the calls still to evaluate, leftmost first
    pieces,        \* the lines returned so far, in order (joined with "\n")
    splitpc,       \* "call" | "run" | "done"
    \* read_chapter
    text,          \* the local `text` (lines 64, 65, 68)
    sentences,     \* the local `lines` (lines 66, 67)
    readpc,        \* "call" | "replace" | "sentences" | "join" | "done"
    \* match_files_transcriptions
    chapters,      \* the chapter texts, in book order
    ratio,         \* fuzz.ratio(transcript, chapter), per audio file and chapter
    transcriptions,\* audio file -> [chapter, best, second]
    audio_chapter, \* position of the outer loop (line 191), 1-based
    book_chapter,  \* position of the inner loop (line 192), 1-based
    report,        \* the lines printed (lines 201-206)
    returned,      \* the list returned (line 207)
    matchpc,       \* "call" | "scan" | "done"
    \* main, read_ebook_toc, align_book, align_chapter
    audio_files,   \* get_audio_files(audio_dir) (line 326)
    links,         \* whether the book holds any <a> tag (line 96)
    srt_before,    \* the audio files whose .srt exists when main starts
    srt_files,     \* audio file -> "absent" | "old" | "new": its .srt now
    match_list,    \* the TOC matches shown to the operator (lines 110-115)
    answer,        \* what the operator typed (line 116)
    toc_outcome,   \* "pending" | "raised" | "rejected" | "returned"
    by_transcript, \* what match_files_transcriptions returned (line 336)
    matched_files, \* the local matched_files of main
    model,         \* the local model of align_book: "None" | "loaded"
    aligned,       \* the (audio file, text) pairs model.align was called with
    pair,          \* position of the loop of align_book (line 270), 1-based
    failed_at,     \* position of the pair whose align_chapter raised, else 0
    mainpc         \* "call" | "toc" | "transcribe" | "align" | "done" | "raised"

padVars == <<padtime, parsed, lines, i, composed, padpc>>
splitVars == <<MAX_LINE_LENGTH, unit, stack, pieces, splitpc>>
readVars == <<text, sentences, readpc>>
matchVars == <<chapters, ratio, transcriptions, audio_chapter, book_chapter,
               report, returned, matchpc>>

mainVars == <<audio_files, links, srt_before, srt_files, match_list, answer,
              toc_outcome, by_transcript, matched_files, model, aligned, pair,
              failed_at, mainpc>>

vars == <<padVars, splitVars, readVars, matchVars, mainVars>>

-----------------------------------------------------------------------------
(* Bounds of the model *)

MaxCues == 3       \* cues in one subtitle track
MaxTime == 4       \* latest cue time, in ticks
MaxPadTime == 2    \* largest value of PAD_SECONDS tried, in ticks
MaxUnitLen == 5    \* characters in a unit given to split_line
MaxLineLimit == 3  \* largest value of MAX_LINE_LENGTH tried
MaxTextLen == 4    \* characters in the text extracted from a chapter
MaxChapters == 2   \* chapters of the book given to the matcher
MaxAudio == 2      \* audio files in the directory given to main

-----------------------------------------------------------------------------
(* The state before any routine is called *)

PadInit ==
    /\ padtime = 0
    /\ parsed = <<>>
    /\ lines = <<>>
    /\ i = 0
    /\ composed = <<>>
    /\ padpc = "call"

SplitInit ==
    /\ MAX_LINE_LENGTH = 0
    /\ unit = <<>>
    /\ stack = <<>>
    /\ pieces = <<>>
    /\ splitpc = "call"

ReadInit ==
    /\ text = <<>>
    /\ sentences = <<>>
    /\ readpc = "call"

MatchInit ==
    /\ chapters = <<>>
    /\ ratio = <<>>
    /\ transcriptions = <<>>
    /\ audio_chapter = 0
    /\ book_chapter = 0
    /\ report = <<>>
    /\ returned = <<>>
    /\ matchpc = "call"

\* Python's None, and a list of (audio file, chapter text) pairs
None == [kind |-> "None", pairs |-> <<>>]

List(ps) == [kind |-> "list", pairs |-> ps]

MainInit ==
    /\ audio_files = <<>>
    /\ links = FALSE
    /\ srt_before = {}
    /\ srt_files = <<>>
    /\ match_list = <<>>
    /\ answer = ""
    /\ toc_outcome = "pending"
    /\ by_transcript = None
    /\ matched_files = None
    /\ model = "None"
    /\ aligned = {}
    /\ pair = 0
    /\ failed_at = 0
    /\ mainpc = "call"

Init == PadInit /\ SplitInit /\ ReadInit /\ MatchInit /\ MainInit

-----------------------------------------------------------------------------
(* split_line, src/main.py lines 37-55 *)

\* Character classes of LINE_DELINEATORS (line 28) and SENTENCE_END (line 27):
\*   "p"  one of the clause marks of the bracket class other than the closing
\*        quote;   "q"  the closing quote, which the class holds and which may
\*        also follow a class character inside one match;
\*   "d"  a long dash or an ellipsis;   "r"  carriage return;   "n"  newline;
\*   "e"  the full stop that ends a sentence; "w"  the full-width space U+3000;
\*   "x"  any other character.
Chars == {"x", "p", "q", "d", "r", "n", "e", "w"}

\* The strings over alphabet A of at most n characters.
Strings(A, n) == UNION { [1..m -> A] : m \in 0..n }

Abs(a) == IF a < 0 THEN -a ELSE a

\* The length of the run of characters of class C that starts at s[k].
RECURSIVE RunLen(_, _, _)
RunLen(s, k, C) ==
    IF k <= Len(s) /\ s[k] \in C THEN 1 + RunLen(s, k + 1, C) ELSE 0

\* The length of the match of LINE_DELINEATORS that starts at s[k], 0 if none:
\* [class](closing quote)? | (dash|ellipsis)+ | [\r\n]+, each greedy.
MatchLenAt(s, k) ==
    IF s[k] \in {"p", "q"}
    THEN (IF k + 1 <= Len(s) /\ s[k + 1] = "q" THEN 2 ELSE 1)
    ELSE IF s[k] = "d" THEN RunLen(s, k, {"d"})
    ELSE IF s[k] \in {"r", "n"} THEN RunLen(s, k, {"r", "n"})
    ELSE 0

\* m.end() of every match of LINE_DELINEATORS.finditer over s from s[k] on, in
\* order: the matches are leftmost and do not overlap.
RECURSIVE MatchEnds(_, _)
MatchEnds(s, k) ==
    IF k > Len(s) THEN <<>>
    ELSE LET m == MatchLenAt(s, k)
         IN  IF m = 0 THEN MatchEnds(s, k + 1)
             ELSE <<k - 1 + m>> \o MatchEnds(s, k + m)

\* line 45: matches = list(LINE_DELINEATORS.finditer(line)), as their ends
matches(line) == MatchEnds(line, 1)

\* line 49: abs(m.end() - len(line)/2), doubled to stay in the integers
pos(line, e) == Abs(2 * e - Len(line))

\* A faulty variant of splitpos: the match farthest from the midpoint is taken.
splitpos_farthest(line) ==
    LET ms == matches(line)
        k  == CHOOSE a \in 1..Len(ms) :
                  /\ \A b \in 1..Len(ms) : pos(line, ms[a]) >= pos(line, ms[b])
                  /\ \A b \in 1..(a - 1) : pos(line, ms[b]) < pos(line, ms[a])
    IN  ms[k]

\* line 50: matches[pos.index(min(pos))].end(): the first match among those
\* closest to the midpoint
splitpos(line) ==
    LET ms == matches(line)
        k  == CHOOSE a \in 1..Len(ms) :
                  /\ \A b \in 1..Len(ms) : pos(line, ms[a]) <= pos(line, ms[b])
                  /\ \A b \in 1..(a - 1) : pos(line, ms[b]) > pos(line, ms[a])
    IN  ms[k]

\* A faulty variant of no_real_split: only a split point past the end is
\* refused.
no_real_split_never(sp, n) == sp > n

\* line 51: splitpos >= len(line)-1
no_real_split(sp, n) == sp >= n - 1

\* lines 43-52: the three early returns of split_line
returns_unchanged(line, max) ==
    IF Len(line) <= max THEN TRUE
    ELSE IF matches(line) = <<>> THEN TRUE
    ELSE no_real_split(splitpos(line), Len(line))

\* line 53: left, right = line[:splitpos], line[splitpos:]
left(line) == SubSeq(line, 1, splitpos(line))

right(line) == SubSeq(line, splitpos(line) + 1, Len(line))

\* "\n".join(ls)
RECURSIVE Join(_)
Join(ls) ==
    IF ls = <<>> THEN <<>>
    ELSE IF Len(ls) = 1 THEN ls[1]
    ELSE ls[1] \o <<"n">> \o Join(Tail(ls))

\* split_line as the function it is: the unit, or its two halves split in turn
\* and joined with a newline (line 55).
RECURSIVE split_line(_, _)
split_line(line, max) ==
    IF returns_unchanged(line, max) THEN line
    ELSE split_line(left(line), max) \o <<"n">> \o split_line(right(line), max)

\* split_line(unit) is called, for any unit and any configured maximum
SplitCall ==
    /\ splitpc = "call"
    /\ MAX_LINE_LENGTH' \in 1..MaxLineLimit
    /\ unit' \in Strings({"x", "p", "q", "d", "n"}, MaxUnitLen)
    /\ stack' = <<unit'>>
    /\ splitpc' = "run"
    /\ UNCHANGED <<pieces, padVars, readVars, matchVars, mainVars>>

\* lines 43-52: the call at the head of the stack returns its argument
SplitReturn ==
    /\ splitpc = "run"
    /\ stack # <<>>
    /\ returns_unchanged(Head(stack), MAX_LINE_LENGTH)
    /\ pieces' = Append(pieces, Head(stack))
    /\ stack' = Tail(stack)
    /\ UNCHANGED <<MAX_LINE_LENGTH, unit, splitpc,
                   padVars, readVars, matchVars, mainVars>>

\* lines 53-55: the call at the head of the stack recurses on left and right
SplitRecurse ==
    /\ splitpc = "run"
    /\ stack # <<>>
    /\ ~returns_unchanged(Head(stack), MAX_LINE_LENGTH)
    /\ stack' = <<left(Head(stack)), right(Head(stack))>> \o Tail(stack)
    /\ UNCHANGED <<MAX_LINE_LENGTH, unit, pieces, splitpc,
                   padVars, readVars, matchVars, mainVars>>

\* the outermost call returns: every call has been evaluated
SplitDone ==
    /\ splitpc = "run"
    /\ stack = <<>>
    /\ splitpc' = "done"
    /\ UNCHANGED <<MAX_LINE_LENGTH, unit, stack, pieces,
                   padVars, readVars, matchVars, mainVars>>

NextSplit == SplitCall \/ SplitReturn \/ SplitRecurse \/ SplitDone

SpecSplit == Init /\ [][NextSplit]_vars

\* The calls evaluated one by one return what the function returns.
SplitStepsAgree ==
    splitpc = "done" => Join(pieces) = split_line(unit, MAX_LINE_LENGTH)

OverLong(line) == Len(line) > MAX_LINE_LENGTH

Piece(k) == pieces[k]

Recurses == splitpc = "run" /\ Len(stack') > Len(stack)

\* The work left in a call: 2n-1 for a pending unit of n >= 1 characters, 1 for
\* a pending empty unit.  Splitting n = l + r with l, r >= 1 lowers it, and so
\* does returning.
RECURSIVE Work(_)
Work(st) ==
    IF st = <<>> THEN 0
    ELSE (IF Head(st) = <<>> THEN 1 ELSE 2 * Len(Head(st)) - 1) + Work(Tail(st))

\* A running call can take a step: it is over, or the call at the head of the
\* stack returns, or it recurses at a split point that exists.
CanStep ==
    \/ stack = <<>>
    \/ returns_unchanged(Head(stack), MAX_LINE_LENGTH)
    \/ /\ matches(Head(stack)) # <<>>
       /\ splitpos(Head(stack)) \in 0..Len(Head(stack))

\* C9: split_line terminates on every input: a running call can always take its
\* next step, and every step on a pending unit lowers the work left, which is
\* never negative.  Whenever it recurses the split point lies strictly inside
\* the unit, so both halves are non-empty, strictly shorter than the unit and
\* make it up; and a unit whose chosen split point is its end is returned
\* unchanged instead of recursing.
C9_SplitTerminates ==
    /\ [][ Recurses =>
             /\ splitpos(Head(stack)) \in 1..(Len(Head(stack)) - 1)
             /\ stack'[1] # <<>> /\ Len(stack'[1]) < Len(Head(stack))
             /\ stack'[2] # <<>> /\ Len(stack'[2]) < Len(Head(stack))
             /\ stack'[1] \o stack'[2] = Head(stack) ]_vars
    /\ [][ ( /\ splitpc = "run" /\ stack # <<>>
             /\ OverLong(Head(stack)) /\ matches(Head(stack)) # <<>>
             /\ splitpos(Head(stack)) = Len(Head(stack)) ) =>
           ( /\ pieces' = Append(pieces, Head(stack))
             /\ stack' = Tail(stack) ) ]_vars
    /\ [][ (splitpc = "run" /\ stack # <<>>) =>
           (Work(stack') < Work(stack) /\ Work(stack') >= 0) ]_vars
    /\ [](splitpc = "run" => CanStep)

\* C9 witness: a finished call that recursed more than once and also returned
\* unchanged a unit longer than the maximum whose chosen split point was its
\* end.
C9_Witness ==
    /\ splitpc = "done"
    /\ Len(pieces) >= 3
    /\ \E k \in 1..Len(pieces) :
          /\ OverLong(Piece(k))
          /\ matches(Piece(k)) # <<>>
          /\ splitpos(Piece(k)) = Len(Piece(k))

-----------------------------------------------------------------------------
(* read_chapter, src/main.py lines 57-70 *)

\* lines 66-67: SENTENCE_END.split(text) without its empty strings.  The
\* pattern \n|(?<=full stop) splits at every newline, which it consumes, and
\* after every full stop, which it keeps; cur is the sentence being read.
RECURSIVE SentenceSplit(_, _)
SentenceSplit(s, cur) ==
    IF s = <<>> THEN (IF cur = <<>> THEN <<>> ELSE <<cur>>)
    ELSE IF Head(s) = "n"
         THEN (IF cur = <<>> THEN <<>> ELSE <<cur>>) \o SentenceSplit(Tail(s), <<>>)
    ELSE IF Head(s) = "e"
         THEN <<Append(cur, "e")>> \o SentenceSplit(Tail(s), <<>>)
    ELSE SentenceSplit(Tail(s), Append(cur, Head(s)))

\* line 65: text.replace('\u3000', "") builds a new string, which the
\* statement discards; the local `text` keeps its value.
replace_statement(t) == t

\* lines 63-64: the text BeautifulSoup extracts from the markup, any text
ReadCall ==
    /\ readpc = "call"
    /\ text' \in Strings({"x", "p", "e", "n", "w"}, MaxTextLen)
    /\ MAX_LINE_LENGTH' \in 1..MaxLineLimit
    /\ readpc' = "replace"
    /\ UNCHANGED <<sentences, unit, stack, pieces, splitpc, padVars, matchVars, mainVars>>

\* line 65
ReadReplace ==
    /\ readpc = "replace"
    /\ text' = replace_statement(text)
    /\ readpc' = "sentences"
    /\ UNCHANGED <<sentences, splitVars, padVars, matchVars, mainVars>>

\* lines 66-67
ReadSentences ==
    /\ readpc = "sentences"
    /\ sentences' = SentenceSplit(text, <<>>)
    /\ readpc' = "join"
    /\ UNCHANGED <<text, splitVars, padVars, matchVars, mainVars>>

\* lines 68-70
ReadJoin ==
    /\ readpc = "join"
    /\ text' = Join([k \in 1..Len(sentences) |->
                        split_line(sentences[k], MAX_LINE_LENGTH)])
    /\ readpc' = "done"
    /\ UNCHANGED <<sentences, splitVars, padVars, matchVars, mainVars>>

NextRead == ReadCall \/ ReadReplace \/ ReadSentences \/ ReadJoin

SpecRead == Init /\ [][NextRead]_vars

\* C8: the text read_chapter returns holds no full-width space.
C8_NoFullWidthSpace ==
    readpc = "done" => \A k \in 1..Len(text) : text[k] # "w"

-----------------------------------------------------------------------------
(* match_files_transcriptions, src/main.py lines 185-207, on the dictionary
   transcribe_audiobook builds (lines 178-181) *)

\* The audio files of the run, in the order of the dictionary.
AudioFiles == <<"a1.mp3", "a2.mp3">>

\* Values fuzz.ratio can take: integers in 0..100, of which the model takes
\* these.
Scores == {0, 40, 53, 55, 85}

\* The chapter texts: n distinct non-empty texts.
ChapterTexts(n) == [k \in 1..n |-> k]

\* The value of 'chapter' before any chapter is recorded: "" (line 179)
NoChapter == 0

\* lines 178-181: {'transcript': t[1], 'chapter': "", 'best': 0, 'second': 0}
new_entry == [chapter |-> NoChapter, best |-> 0, second |-> 0]

\* lines 194-199: one pass of the inner loop body on one dictionary entry
update(info, r, ch) ==
    IF r > info.best
    THEN [chapter |-> ch, best |-> r, second |-> info.best]
    ELSE IF r > info.second
    THEN [info EXCEPT !.second = r]
    ELSE info

\* A faulty variant of report_lines: the hint is printed only when a best score
\* is low.
report_lines_hint_if_low(tr) ==
    [k \in 1..Len(AudioFiles) |->
        [kind |-> "scores", file |-> AudioFiles[k],
         best |-> tr[k].best, second |-> tr[k].second]]
    \o (IF \E k \in 1..Len(AudioFiles) : tr[k].best < 70
        THEN <<[kind |-> "hint", file |-> "", best |-> 0, second |-> 0]>>
        ELSE <<>>)

\* lines 202-206: one line of scores per audio file, then the hint, which is
\* the same text whatever the scores are
report_lines(tr) ==
    [k \in 1..Len(AudioFiles) |->
        [kind |-> "scores", file |-> AudioFiles[k],
         best |-> tr[k].best, second |-> tr[k].second]]
    \o <<[kind |-> "hint", file |-> "", best |-> 0, second |-> 0]>>

\* the call: any book of up to MaxChapters chapters, any scores
MatchCall ==
    /\ matchpc = "call"
    /\ \E n \in 0..MaxChapters :
          /\ chapters' = ChapterTexts(n)
          /\ ratio' \in [1..Len(AudioFiles) -> [1..n -> Scores]]
    /\ transcriptions' = [k \in 1..Len(AudioFiles) |-> new_entry]
    /\ audio_chapter' = 1
    /\ book_chapter' = 1
    /\ matchpc' = "scan"
    /\ UNCHANGED <<report, returned, padVars, splitVars, readVars, mainVars>>

\* lines 191-199: the inner loop body for the next (audio file, chapter)
MatchStep ==
    /\ matchpc = "scan"
    /\ audio_chapter <= Len(AudioFiles)
    /\ book_chapter <= Len(chapters)
    /\ transcriptions' =
          [transcriptions EXCEPT ![audio_chapter] =
              update(@, ratio[audio_chapter][book_chapter], chapters[book_chapter])]
    /\ IF book_chapter < Len(chapters)
       THEN book_chapter' = book_chapter + 1 /\ UNCHANGED audio_chapter
       ELSE book_chapter' = 1 /\ audio_chapter' = audio_chapter + 1
    /\ UNCHANGED <<chapters, ratio, report, returned, matchpc,
                   padVars, splitVars, readVars, mainVars>>

\* lines 201-207: the loops are over; the report is printed and the pairs returned
MatchReport ==
    /\ matchpc = "scan"
    /\ audio_chapter > Len(AudioFiles) \/ Len(chapters) = 0
    /\ report' = report_lines(transcriptions)
    /\ returned' = [k \in 1..Len(AudioFiles) |->
                       <<AudioFiles[k], transcriptions[k].chapter>>]
    /\ matchpc' = "done"
    /\ UNCHANGED <<chapters, ratio, transcriptions, audio_chapter, book_chapter,
                   padVars, splitVars, readVars, mainVars>>

NextMatch == MatchCall \/ MatchStep \/ MatchReport

SpecMatch == Init /\ [][NextMatch]_vars

\* The chapters scanned so far for audio file a.
Scanned(a) ==
    IF matchpc = "done" \/ a < audio_chapter THEN 1..Len(chapters)
    ELSE IF a = audio_chapter THEN 1..(book_chapter - 1)
    ELSE {}

MaxOf(S) == CHOOSE m \in S : \A x \in S : x <= m

\* What holds of the scan whatever the scores: best >= second, best is the
\* largest score seen (0 if none), and once best is above 0 the chapter recorded
\* is one whose score is best.
ScanInvariant ==
    matchpc \in {"scan", "done"} =>
        \A a \in 1..Len(AudioFiles) :
            LET info == transcriptions[a]
                seen == { ratio[a][c] : c \in Scanned(a) }
            IN  /\ info.best >= info.second
                /\ info.best = MaxOf(seen \cup {0})
                /\ info.best > 0 =>
                      \E c \in Scanned(a) :
                          chapters[c] = info.chapter /\ ratio[a][c] = info.best
                /\ info.best = 0 => info.chapter = NoChapter

\* C4: once at least one chapter has been scanned for an audio file, best >=
\* second, best is the largest score seen, and the chapter recorded (the one
\* returned in the end) is a chapter whose score is best.
C4_BestChapterRecorded ==
    /\ matchpc \in {"scan", "done"} =>
        \A a \in 1..Len(AudioFiles) :
            Scanned(a) # {} =>
                LET info == transcriptions[a]
                    seen == { ratio[a][c] : c \in Scanned(a) }
                IN  /\ info.best >= info.second
                    /\ info.best = MaxOf(seen)
                    /\ \E c \in Scanned(a) :
                          chapters[c] = info.chapter /\ ratio[a][c] = info.best
    /\ matchpc = "done" =>
        \A a \in 1..Len(AudioFiles) :
            returned[a] = <<AudioFiles[a], transcriptions[a].chapter>>

\* The score below which the printed hint calls a match doubtful (line 206).
LOW_CONFIDENCE == 70

\* A warning is surfaced for audio file f: a line of the report flags f, or,
\* if the general hint is read as a warning, the hint is printed.
Warned(f, hintWarns) ==
    \E k \in 1..Len(report) :
        \/ report[k].kind = "warning" /\ report[k].file = f
        \/ hintWarns /\ report[k].kind = "hint"

\* C10 as stated, under either reading of the hint: a file whose best score is
\* below 70 has a warning surfaced for it, and a file with best 85 and second
\* 40 has none.
C10_Original ==
    matchpc = "done" =>
        \E hintWarns \in BOOLEAN :
            \A a \in 1..Len(AudioFiles) :
                /\ transcriptions[a].best < LOW_CONFIDENCE =>
                      Warned(AudioFiles[a], hintWarns)
                /\ (transcriptions[a].best = 85 /\ transcriptions[a].second = 40) =>
                      ~Warned(AudioFiles[a], hintWarns)

\* C10 amended: the report holds, for every audio file in order, one line with
\* its best and second-best score, and then one hint, the same whatever the
\* scores; no line flags a particular file.
C10_ReportListsScoresAndHint ==
    matchpc = "done" =>
        /\ Len(report) = Len(AudioFiles) + 1
        /\ \A a \in 1..Len(AudioFiles) :
              report[a] = [kind |-> "scores", file |-> AudioFiles[a],
                           best |-> transcriptions[a].best,
                           second |-> transcriptions[a].second]
        /\ report[Len(report)].kind = "hint"
        /\ \A k \in 1..Len(report) : report[k].kind # "warning"

\* C10 witness: a report for one file with best 55 and second 53 and another
\* with best 85 and second 40.
C10_Witness ==
    /\ matchpc = "done"
    /\ transcriptions[1].best = 55 /\ transcriptions[1].second = 53
    /\ transcriptions[2].best = 85 /\ transcriptions[2].second = 40
    /\ Len(report) = 3

-----------------------------------------------------------------------------
(* main (lines 315-343), read_ebook_toc (lines 83-129), align_book (lines
   256-271) and align_chapter (lines 236-253).  The audio files are numbered
   in directory order; a chapter text is one of BookTexts, or "" (NoChapter). *)

BookTexts == {1, 2}

\* What the operator may type at the prompt of line 116.
Answers == {"", "y", "Y", "n", "N", "no"}

\* str.lower on those answers
lower(a) == IF a = "Y" THEN "y" ELSE IF a = "N" THEN "n" ELSE a

\* The (audio file, text) pairs of a choice m of one text per audio file.
Pairs(m) == [k \in 1..Len(m) |-> <<k, m[k]>>]

\* A faulty variant of toc_return: the answer is not looked at.
toc_return_ignores_answer(ans, out_list) == List(out_list)

\* lines 120-129: None on the answer "n" or "N", else the list of pairs
toc_return(ans, out_list) ==
    IF lower(ans) = "n" THEN None ELSE List(out_list)

\* line 332: `not matched_files` holds of None and of the empty list
needs_fallback(m) == m = None \/ m.pairs = <<>>

\* A faulty variant of output_exists: the test for the existing file is left
\* out.
output_exists_never(files, a) == FALSE

\* line 242: output_file.exists()
output_exists(files, a) == files[a] # "absent"

\* A faulty variant of on_align_error: the loop catches the error and goes on.
on_align_error_swallowed == "align"

\* lines 270-271: nothing in align_book or in main catches what align_chapter
\* raises; the run ends there
on_align_error == "raised"

\* lines 323-326: any directory of audio files and of subtitles already there
MainCall ==
    /\ mainpc = "call"
    /\ \E n \in 0..MaxAudio :
          /\ audio_files' = [k \in 1..n |-> k]
          /\ \E before \in SUBSET (1..n) :
                /\ srt_before' = before
                /\ srt_files' = [k \in 1..n |->
                                    IF k \in before THEN "old" ELSE "absent"]
    /\ links' \in BOOLEAN
    /\ mainpc' = "toc"
    /\ UNCHANGED <<match_list, answer, toc_outcome, by_transcript, matched_files,
                   model, aligned, pair, failed_at,
                   padVars, splitVars, readVars, matchVars>>

\* lines 328-332 when read_ebook_toc raises: while the links are resolved
\* (always so at line 112 when there is an audio file and no link), or, after an
\* answer other than "n", while the matched chapters are read (lines 124-127)
TocRaises ==
    /\ mainpc = "toc"
    /\ \/ /\ UNCHANGED <<match_list, answer>>
       \/ /\ links
          /\ Len(audio_files) > 0
          /\ \E m \in [1..Len(audio_files) -> BookTexts] : match_list' = Pairs(m)
          /\ \E ans \in Answers : lower(ans) # "n" /\ answer' = ans
    /\ toc_outcome' = "raised"
    /\ matched_files' = None
    /\ mainpc' = "transcribe"
    /\ UNCHANGED <<audio_files, links, srt_before, srt_files, by_transcript,
                   model, aligned, pair, failed_at,
                   padVars, splitVars, readVars, matchVars>>

\* lines 328-332 when read_ebook_toc returns: the matches are shown, the
\* operator answers, and main tests what came back
TocAnswered ==
    /\ mainpc = "toc"
    /\ links \/ Len(audio_files) = 0
    /\ \E m \in [1..Len(audio_files) -> BookTexts] : match_list' = Pairs(m)
    /\ answer' \in Answers
    /\ toc_outcome' = IF lower(answer') = "n" THEN "rejected" ELSE "returned"
    /\ matched_files' = toc_return(answer', match_list')
    /\ IF needs_fallback(matched_files')
       THEN mainpc' = "transcribe" /\ UNCHANGED pair
       ELSE mainpc' = "align" /\ pair' = 1
    /\ UNCHANGED <<audio_files, links, srt_before, srt_files, by_transcript,
                   model, aligned, failed_at,
                   padVars, splitVars, readVars, matchVars>>

\* lines 333-336: the transcript strategy assigns every audio file a chapter
\* text or ""
Transcribe ==
    /\ mainpc = "transcribe"
    /\ \E m \in [1..Len(audio_files) -> BookTexts \cup {NoChapter}] :
          by_transcript' = List(Pairs(m))
    /\ matched_files' = by_transcript'
    /\ mainpc' = "align"
    /\ pair' = 1
    /\ UNCHANGED <<audio_files, links, srt_before, srt_files, match_list, answer,
                   toc_outcome, model, aligned, failed_at,
                   padVars, splitVars, readVars, matchVars>>

\* lines 334-336 when the transcription or the matching raises: main catches
\* nothing there
TranscribeRaises ==
    /\ mainpc = "transcribe"
    /\ mainpc' = "raised"
    /\ UNCHANGED <<audio_files, links, srt_before, srt_files, match_list, answer,
                   toc_outcome, by_transcript, matched_files, model, aligned,
                   pair, failed_at, padVars, splitVars, readVars, matchVars>>

\* The audio file and the text of the pair the loop of align_book is at.
path == matched_files.pairs[pair][1]

AtPair == mainpc = "align" /\ pair <= Len(matched_files.pairs)

\* lines 241-244: the subtitle file is there; align_chapter returns
AlignSkip ==
    /\ AtPair
    /\ output_exists(srt_files, path)
    /\ pair' = pair + 1
    /\ UNCHANGED <<audio_files, links, srt_before, srt_files, match_list, answer,
                   toc_outcome, by_transcript, matched_files, model, aligned,
                   failed_at, mainpc, padVars, splitVars, readVars, matchVars>>

\* lines 246-253: the model is loaded if it is not yet (lines 263-268), the
\* chapter aligned, the track padded and the subtitle file written
AlignWrite ==
    /\ AtPair
    /\ ~output_exists(srt_files, path)
    /\ model' = "loaded"
    /\ aligned' = aligned \cup {matched_files.pairs[pair]}
    /\ srt_files' = [srt_files EXCEPT ![path] = "new"]
    /\ pair' = pair + 1
    /\ UNCHANGED <<audio_files, links, srt_before, match_list, answer,
                   toc_outcome, by_transcript, matched_files, failed_at, mainpc,
                   padVars, splitVars, readVars, matchVars>>

\* lines 246-251 when loading the model raises, or when model.align or the
\* padding of its result raises: nothing is written
AlignRaises ==
    /\ AtPair
    /\ ~output_exists(srt_files, path)
    /\ \/ model = "None" /\ UNCHANGED <<model, aligned>>
       \/ /\ model' = "loaded"
          /\ aligned' = aligned \cup {matched_files.pairs[pair]}
    /\ failed_at' = pair
    /\ mainpc' = on_align_error
    /\ pair' = IF on_align_error = "align" THEN pair + 1 ELSE pair
    /\ UNCHANGED <<audio_files, links, srt_before, srt_files, match_list, answer,
                   toc_outcome, by_transcript, matched_files,
                   padVars, splitVars, readVars, matchVars>>

\* line 270 past the last pair: align_book returns; convert_to_video (line 343)
\* touches neither the subtitles nor the model
AlignDone ==
    /\ mainpc = "align"
    /\ pair > Len(matched_files.pairs)
    /\ mainpc' = "done"
    /\ UNCHANGED <<audio_files, links, srt_before, srt_files, match_list, answer,
                   toc_outcome, by_transcript, matched_files, model, aligned,
                   pair, failed_at, padVars, splitVars, readVars, matchVars>>

NextMain ==
    \/ MainCall \/ TocRaises \/ TocAnswered \/ Transcribe \/ TranscribeRaises
    \/ AlignSkip \/ AlignWrite \/ AlignRaises \/ AlignDone

SpecMain == Init /\ [][NextMain]_vars

\* align_book has been entered.
InAlignBook == mainpc \in {"align", "done"} \/ failed_at # 0

\* The subtitle file of audio file a is as it was when main started.
Untouched(a) == srt_files[a] = IF a \in srt_before THEN "old" ELSE "absent"

C5_Original ==
    (mainpc \in {"done", "raised"} /\ failed_at # 0) =>
        \A j \in (failed_at + 1)..Len(matched_files.pairs) :
            srt_files[matched_files.pairs[j][1]] # "absent"

\* C5 amended: when align_chapter fails for a pair the run ends there: the loop
\* stays at that pair, no later pair is aligned and no later subtitle file is
\* touched; the subtitle files of the earlier pairs are there.
C5_FailureEndsRun ==
    failed_at # 0 =>
        /\ mainpc = "raised"
        /\ pair = failed_at
        /\ \A j \in (failed_at + 1)..Len(matched_files.pairs) :
              /\ matched_files.pairs[j] \notin aligned
              /\ Untouched(matched_files.pairs[j][1])
        /\ \A j \in 1..(failed_at - 1) :
              srt_files[matched_files.pairs[j][1]] # "absent"

\* C5 witness: the first of several pairs failed and a later pair, which had no
\* subtitle file, is left without one.
C5_Witness ==
    /\ failed_at = 1
    /\ Len(matched_files.pairs) >= 2
    /\ \E j \in 2..Len(matched_files.pairs) :
          srt_files[matched_files.pairs[j][1]] = "absent"

\* C7: a call of align_chapter for a pair whose subtitle file exists loads no
\* model, makes no align call and writes nothing; and a run of align_book in
\* which every pair's subtitle file existed never loads the model and leaves
\* every subtitle file as it was.
C7_ExistingOutputSkipped ==
    /\ [][ (AtPair /\ srt_files[path] # "absent") =>
             /\ model' = model
             /\ aligned' = aligned
             /\ srt_files' = srt_files
             /\ failed_at' = failed_at
             /\ pair' = pair + 1 ]_vars
    /\ []( ( /\ InAlignBook
             /\ \A k \in 1..Len(matched_files.pairs) :
                   matched_files.pairs[k][1] \in srt_before ) =>
           ( /\ model = "None"
             /\ aligned = {}
             /\ failed_at = 0
             /\ \A a \in 1..Len(audio_files) : Untouched(a) ) )

\* C7 witness: a finished run of at least two pairs, each of whose subtitle
\* files existed before; the model was never loaded.
C7_Witness ==
    /\ mainpc = "done"
    /\ Len(matched_files.pairs) >= 2
    /\ \A k \in 1..Len(matched_files.pairs) :
          matched_files.pairs[k][1] \in srt_before
    /\ model = "None"

-----------------------------------------------------------------------------
(* pad_srt, src/main.py lines 209-234 *)

Min(a, b) == IF a <= b THEN a ELSE b

\* The tracks the aligner can hand over: cues [start, end, index] numbered 1..n
\* in file order, each a span (start <= end) of times in 0..MaxTime, in
\* non-decreasing start order.  Ends are free, so a
\* cue may run into its successor.  TracksFrom(k, n, lo): the tracks of n cues
\* numbered from k whose starts are at least lo.
RECURSIVE TracksFrom(_, _, _)
TracksFrom(k, n, lo) ==
    IF n = 0 THEN { <<>> }
    ELSE UNION { { <<[start |-> sp[1], end |-> sp[2], index |-> k]>> \o t :
                     t \in TracksFrom(k + 1, n - 1, sp[1]) } :
                 sp \in { x \in (lo..MaxTime) \X (lo..MaxTime) : x[1] <= x[2] } }

\* srt.Subtitle ordering: by (start, end, index)
CueLess(a, b) ==
    \/ a.start < b.start
    \/ a.start = b.start /\ a.end < b.end
    \/ a.start = b.start /\ a.end = b.end /\ a.index < b.index

RECURSIVE SortCues(_)
SortCues(S) ==
    IF S = {} THEN <<>>
    ELSE LET m == CHOOSE a \in S : \A b \in S \ {a} : CueLess(a, b)
         IN  <<m>> \o SortCues(S \ {m})

RECURSIVE Reindex(_, _)
Reindex(s, n) ==
    IF s = <<>> THEN <<>>
    ELSE IF Head(s).start >= Head(s).end
         THEN Reindex(Tail(s), n)
         ELSE <<[Head(s) EXCEPT !.index = n]>> \o Reindex(Tail(s), n + 1)

\* srt.compose(lines) with its defaults (reindex, strict): the cues sorted, the
\* cues whose start is not before their end skipped, the rest renumbered.
compose(ls) == Reindex(SortCues({ ls[k] : k \in 1..Len(ls) }), 1)

\* Faulty variants of pad: the clamp to the gap left out; the operands of the
\* gap swapped.
pad_unclamped(ls, n) == padtime

pad_swapped(ls, n) == Min(padtime, ls[n + 1].end - ls[n + 2].start)

\* line 227: pad = min(padtime, lines[i+1].start - lines[i].end)
pad(ls, n) == Min(padtime, ls[n + 2].start - ls[n + 1].end)

\* lines 217-218: padtime, and lines = list(srt.parse(srt_str)), for any pad
\* amount and any track of the aligner
PadCall ==
    /\ padpc = "call"
    /\ padtime' \in 0..MaxPadTime
    /\ \E n \in 0..MaxCues :
          \E t \in TracksFrom(1, n, 0) : parsed' = t /\ lines' = t
    /\ padpc' = "loop"
    /\ UNCHANGED <<i, composed, splitVars, readVars, matchVars, mainVars>>

\* lines 222-231: one iteration of the while loop
PadLoop ==
    /\ padpc = "loop"
    /\ i + 1 < Len(lines)
    /\ lines' = [lines EXCEPT ![i + 1].end = @ + pad(lines, i)]
    /\ i' = i + 1
    /\ UNCHANGED <<padtime, parsed, composed, padpc,
                   splitVars, readVars, matchVars, mainVars>>

\* lines 232-234: the last cue is padded in full and the track composed
PadLast ==
    /\ padpc = "loop"
    /\ ~(i + 1 < Len(lines))
    /\ Len(lines) > 0
    /\ lines' = [lines EXCEPT ![i + 1].end = @ + padtime]
    /\ composed' = compose(lines')
    /\ padpc' = "done"
    /\ UNCHANGED <<padtime, parsed, i, splitVars, readVars, matchVars, mainVars>>

\* line 232 on an empty track: lines[0] raises IndexError
PadEmpty ==
    /\ padpc = "loop"
    /\ Len(lines) = 0
    /\ padpc' = "raised"
    /\ UNCHANGED <<padtime, parsed, lines, i, composed,
                   splitVars, readVars, matchVars, mainVars>>

NextPad == PadCall \/ PadLoop \/ PadLast \/ PadEmpty

SpecPad == Init /\ [][NextPad]_vars

\* Any of the routines is called and runs.
Next == NextSplit \/ NextRead \/ NextMatch \/ NextMain \/ NextPad

Spec == Init /\ [][Next]_vars

\* The gap the aligner left between cue k and its successor.
Gap(k) == parsed[k + 1].start - parsed[k].end

NoOverlap(s) == \A k \in 1..(Len(s) - 1) : s[k].end <= s[k + 1].start

\* C1: whatever the pad amount and the original gaps, every adjacent pair the
\* loop has adjusted satisfies end(k) <= start(k+1), and so does every adjacent
\* pair of the finished track, as mutated and as composed.
C1_NoOverlapAfterPad ==
    /\ \A k \in 1..(Len(lines) - 1) :
          (padpc = "done" \/ k <= i) => lines[k].end <= lines[k + 1].start
    /\ padpc = "done" => NoOverlap(composed)

\* C1 witness: a finished track of three cues in which one cue ran into its
\* successor and another had a gap smaller than the pad.
C1_Witness ==
    /\ padpc = "done"
    /\ Len(parsed) = 3
    /\ Gap(1) < 0
    /\ Gap(2) > 0 /\ Gap(2) < padtime

\* C2 as stated: for any ordered track, no end is decreased and no start is
\* increased.
C2_Original ==
    padpc = "done" =>
        \A k \in 1..Len(lines) :
            /\ lines[k].end >= parsed[k].end
            /\ lines[k].start <= parsed[k].start

\* C2 amended: no start is ever increased; a cue that did not run into its
\* successor on input (and the last cue) keeps at least its original end; a cue
\* that did run into its successor has its end pulled back to the successor's
\* start.
C2_EndKeptUnlessOverlapping ==
    \A k \in 1..Len(lines) :
        /\ lines[k].start <= parsed[k].start
        /\ (padpc = "done" \/ k <= i) =>
              IF k < Len(lines) /\ Gap(k) < 0
              THEN lines[k].end = parsed[k + 1].start
              ELSE lines[k].end >= parsed[k].end

\* C2 witness: a finished track where a gap larger than the pad was padded in
\* full and a cue running into its successor was pulled back.
C2_Witness ==
    /\ padpc = "done"
    /\ \E k \in 1..(Len(parsed) - 1) :
          /\ padtime > 0 /\ Gap(k) > padtime
          /\ lines[k].end = parsed[k].end + padtime
    /\ \E k \in 1..(Len(parsed) - 1) :
          Gap(k) < 0 /\ lines[k].end < parsed[k].end

=============================================================================
